---- MODULE Spec2Model ----
(***************************************************************************)
(* Model of the node editor of src/features/modals/NodeModal/index.tsx:    *)
(* the edit buffer (isEditMode, editedFields), the merge of the buffer     *)
(* into the document (handleSave), the optimistic selected node and the    *)
(* deferred reconciliation (the setTimeout callback of handleSave).        *)
(*                                                                         *)
(* A JSON value is a record [t, v, kids]: t is the JavaScript/JSON type,   *)
(* v the text String() gives for a number, string or boolean, kids the     *)
(* own properties of an object or array, keyed by property name (array     *)
(* indices are the property names "0", "1", as in JavaScript).  A document *)
(* text is represented by the value it denotes: indentation is abstracted, *)
(* what JSON.stringify drops is not (see JSONstringify).  What the modal   *)
(* shows (normalizeNodeData, jsonPathToString) is kept as text.            *)
(***************************************************************************)
EXTENDS Integers, Sequences, FiniteSets, TLC

----------------------------------------------------------------------------
(* JSON values *)

NoKids == <<>>

Undefined == [t |-> "undefined", v |-> "", kids |-> NoKids]

Null == [t |-> "null", v |-> "", kids |-> NoKids]

\* the outcome of an expression that throws
Throw == [t |-> "throw", v |-> "", kids |-> NoKids]

num(s) == [t |-> "number", v |-> s, kids |-> NoKids]

str(s) == [t |-> "string", v |-> s, kids |-> NoKids]

obj(f) == [t |-> "object", v |-> "", kids |-> f]

arr(f) == [t |-> "array", v |-> "", kids |-> f]

\* typeof x === 'object' && x !== null
IsContainer(x) == x.t \in {"object", "array"}

\* a path segment: typeof seg is "string" or "number", s is the property name
key(s) == [k |-> "string", s |-> s]

idx(s) == [k |-> "number", s |-> s]

NumberTexts == {"1", "2"}

IndexNames == {"0", "1"}

\* the order in which the rows of an object are listed
KeyOrder == <<"a", "b", "x", "o", "l", "0", "1", "value">>

\* JSON.parse(text) succeeds
CanParse(text) == text \in NumberTexts \cup {"true", "false", "null"}

\* JSON.parse(text)
JSONparse(text) ==
  IF text \in NumberTexts THEN num(text)
  ELSE IF text \in {"true", "false"} THEN [t |-> "boolean", v |-> text, kids |-> NoKids]
  ELSE IF text = "null" THEN Null
  ELSE Throw

\* the indices of an array, in order
IndexOrder == <<"0", "1">>

\* x.length of an array
ArrayLength(x) ==
  LET is == {i \in 1..Len(IndexOrder) : IndexOrder[i] \in DOMAIN x.kids}
  IN IF is = {} THEN 0 ELSE CHOOSE i \in is : \A j \in is : j <= i

RECURSIVE ToStr(_)
RECURSIVE JoinElements(_, _)

\* String(value), `${value}`
ToStr(value) ==
  IF value.t \in {"null", "undefined"} THEN value.t
  ELSE IF value.t = "object" THEN "[object Object]"
  ELSE IF value.t = "array" THEN JoinElements(value, ArrayLength(value))
  ELSE value.v

\* Array.prototype.join of the first n elements: null and undefined are ""
JoinElements(x, n) ==
  IF n = 0 THEN ""
  ELSE LET e == IF IndexOrder[n] \in DOMAIN x.kids THEN x.kids[IndexOrder[n]]
                ELSE Undefined
           text == IF e.t \in {"null", "undefined"} THEN "" ELSE ToStr(e)
       IN IF n = 1 THEN text ELSE JoinElements(x, n - 1) \o "," \o text

\* String(value ?? "")
StringOf(value) ==
  IF value.t \in {"null", "undefined"} THEN "" ELSE ToStr(value)

\* try { JSON.parse(editedFields[k]) } catch { editedFields[k] }
ParseOrRaw(editedFields, k) ==
  IF k \notin DOMAIN editedFields THEN Undefined
  ELSE IF CanParse(editedFields[k]) THEN JSONparse(editedFields[k])
  ELSE str(editedFields[k])

\* x[k] as an expression
Prop(x, k) ==
  IF x.t \in {"undefined", "null", "throw"} THEN Throw
  ELSE IF IsContainer(x) THEN (IF k \in DOMAIN x.kids THEN x.kids[k] ELSE Undefined)
  ELSE IF x.t = "string" /\ k = "0" /\ x.v # "" THEN x
  ELSE Undefined

\* x[k] = val in a module (strict mode): only an object or array takes it
CanAssign(x) == IsContainer(x)

Assign(x, k, val) == [x EXCEPT !.kids = (k :> val) @@ x.kids]

\* x[k] = parse-or-raw(editedFields[k]) for every k of Object.keys(editedFields)
RECURSIVE AssignAll(_, _, _)
AssignAll(x, editedFields, ks) ==
  IF ks = {} THEN x
  ELSE LET k == CHOOSE kk \in ks : TRUE
       IN AssignAll(Assign(x, k, ParseOrRaw(editedFields, k)), editedFields, ks \ {k})

\* JSON.stringify(value, null, 2): an undefined property of an object and a
\* non-index property of an array are dropped, an undefined element is null
RECURSIVE JSONstringify(_)
JSONstringify(x) ==
  IF x.t = "object" THEN
    LET ks == {k \in DOMAIN x.kids : x.kids[k].t # "undefined"}
    IN obj([k \in ks |-> JSONstringify(x.kids[k])])
  ELSE IF x.t = "array" THEN
    LET ks == DOMAIN x.kids \cap IndexNames
    IN arr([k \in ks |-> IF x.kids[k].t = "undefined" THEN Null
                         ELSE JSONstringify(x.kids[k])])
  ELSE x

----------------------------------------------------------------------------
(* Nodes *)

\* "no key" is the falsy key: !row.key holds for undefined and for ""
NoKey == ""

\* selectedNode === null
NoNode == [id |-> <<"null">>, path |-> <<>>, text |-> <<>>]

OrderedKeys(f) == SelectSeq(KeyOrder, LAMBDA k : k \in DOMAIN f)

RowOf(k, val) ==
  [key |-> k, value |-> IF IsContainer(val) THEN Null ELSE val, type |-> val.t]

PathId(path) == [i \in 1..Len(path) |-> path[i].s]

ObjectNode(path, val) ==
  LET ks == OrderedKeys(val.kids)
  IN [id |-> PathId(path), path |-> path,
      text |-> [i \in 1..Len(ks) |-> RowOf(ks[i], val.kids[ks[i]])]]

ValueNode(path, val) ==
  [id |-> PathId(path), path |-> path, text |-> <<RowOf(NoKey, val)>>]

\* the node collection the rebuild derives from a document
RECURSIVE NodesOf(_, _)
NodesOf(val, path) ==
  IF val.t = "object" THEN
    {ObjectNode(path, val)} \cup
    UNION {NodesOf(val.kids[k], Append(path, key(k))) :
             k \in {kk \in DOMAIN val.kids : IsContainer(val.kids[kk])}}
  ELSE IF val.t = "array" THEN
    UNION {IF IsContainer(val.kids[k])
           THEN NodesOf(val.kids[k], Append(path, idx(k)))
           ELSE {ValueNode(Append(path, idx(k)), val.kids[k])} : k \in DOMAIN val.kids}
  ELSE {ValueNode(path, val)}

BuildNodes(doc) == NodesOf(doc, <<>>)

\* nodes.find(n => n.id === id)
HasNode(ns, id) == \E n \in ns : n.id = id

FindNode(ns, id) == CHOOSE n \in ns : n.id = id

\* nodeData.text.length === 1 && !nodeData.text[0].key
IsSingleValue(node) == Len(node.text) = 1 /\ node.text[1].key = NoKey

\* the fields computed by the effect and by handleCancel
ToEditBuffer(node) ==
  IF IsSingleValue(node) THEN ("value" :> StringOf(node.text[1].value))
  ELSE LET ks == {node.text[i].key : i \in {j \in 1..Len(node.text) :
                       /\ node.text[j].type \notin {"array", "object"}
                       /\ node.text[j].key # NoKey}}
           rowOf(k) == CHOOSE i \in 1..Len(node.text) :
                         /\ node.text[i].key = k
                         /\ node.text[i].type \notin {"array", "object"}
                         /\ \A j \in (i+1)..Len(node.text) :
                              ~(node.text[j].key = k /\ node.text[j].type \notin {"array", "object"})
       IN [k \in ks |-> StringOf(node.text[rowOf(k)].value)]

----------------------------------------------------------------------------
(* What the modal shows: normalizeNodeData and jsonPathToString *)

\* the properties of an object as [key, value] pairs, in listing order
PairsOf(x) ==
  LET ks == OrderedKeys(x.kids)
  IN [i \in 1..Len(ks) |-> [key |-> ks[i], value |-> x.kids[ks[i]]]]

RECURSIVE PrettyText(_, _)
RECURSIVE PrettyPairs(_, _)
RECURSIVE PrettyMembers(_, _, _)
RECURSIVE PrettyElements(_, _, _)

\* JSON.stringify(value, null, 2) of a value nested at indentation ind
PrettyText(x, ind) ==
  IF x.t = "string" THEN "\"" \o x.v \o "\""
  ELSE IF x.t \in {"number", "boolean"} THEN x.v
  ELSE IF x.t = "object" THEN PrettyPairs(PairsOf(x), ind)
  ELSE IF x.t = "array" THEN
    IF ArrayLength(x) = 0 THEN "[]"
    ELSE "[\n" \o PrettyElements(x, ArrayLength(x), ind \o "  ") \o "\n" \o ind \o "]"
  ELSE "null"

\* the text of an object with the properties pairs, in their order; a
\* property whose value is undefined is left out
PrettyPairs(pairs, ind) ==
  LET ps == SelectSeq(pairs, LAMBDA p : p.value.t # "undefined")
  IN IF Len(ps) = 0 THEN "{}"
     ELSE "{\n" \o PrettyMembers(ps, Len(ps), ind \o "  ") \o "\n" \o ind \o "}"

PrettyMembers(ps, n, ind) ==
  LET member == ind \o "\"" \o ps[n].key \o "\": " \o PrettyText(ps[n].value, ind)
  IN IF n = 1 THEN member ELSE PrettyMembers(ps, n - 1, ind) \o ",\n" \o member

PrettyElements(x, n, ind) ==
  LET e == IF IndexOrder[n] \in DOMAIN x.kids THEN x.kids[IndexOrder[n]] ELSE Null
      element == ind \o PrettyText(e, ind)
  IN IF n = 1 THEN element ELSE PrettyElements(x, n - 1, ind) \o ",\n" \o element

\* obj[key] = value on the pairs of obj: a new key goes last
PutPair(pairs, k, value) ==
  IF \E i \in 1..Len(pairs) : pairs[i].key = k
  THEN [i \in 1..Len(pairs) |->
          IF pairs[i].key = k THEN [key |-> k, value |-> value] ELSE pairs[i]]
  ELSE Append(pairs, [key |-> k, value |-> value])

\* a row of every type
RowListed_AnyType(row) == row.key # NoKey

\* row.type !== "array" && row.type !== "object", and then row.key
RowListed(row) == row.type \notin {"array", "object"} /\ row.key # NoKey

\* obj after forEach has gone through the first n rows
RECURSIVE NormalizedPairs(_, _)
NormalizedPairs(nodeRows, n) ==
  IF n = 0 THEN <<>>
  ELSE LET pairs == NormalizedPairs(nodeRows, n - 1)
       IN IF RowListed(nodeRows[n])
          THEN PutPair(pairs, nodeRows[n].key, nodeRows[n].value)
          ELSE pairs

normalizeNodeData(nodeRows) ==
  IF Len(nodeRows) = 0 THEN "{}"
  ELSE IF Len(nodeRows) = 1 /\ nodeRows[1].key = NoKey THEN ToStr(nodeRows[1].value)
  ELSE PrettyPairs(NormalizedPairs(nodeRows, Len(nodeRows)), "")

\* every segment in double quotes
SegmentText_Quoted(seg) == "\"" \o seg.s \o "\""

\* typeof seg === "number" ? seg : `"${seg}"`
SegmentText(seg) == IF seg.k = "number" THEN seg.s ELSE "\"" \o seg.s \o "\""

\* segments.join("][") of the first n segments
RECURSIVE JoinSegments(_, _)
JoinSegments(path, n) ==
  IF n = 1 THEN SegmentText(path[1])
  ELSE JoinSegments(path, n - 1) \o "][" \o SegmentText(path[n])

jsonPathToString(path) ==
  IF Len(path) = 0 THEN "$" ELSE "$[" \o JoinSegments(path, Len(path)) \o "]"

\* the two CodeHighlight elements of the render: the first one is there
\* only outside edit mode
NoCode == ""

Render(nodeData, mode) ==
  [shown |-> ~mode,
   code  |-> IF mode THEN NoCode ELSE normalizeNodeData(nodeData.text),
   path  |-> jsonPathToString(nodeData.path)]

----------------------------------------------------------------------------
(* handleSave: the merge and the optimistic node *)

\* for (let i = 0; i < path.length - 1; i++) current = current[path[i]]
RECURSIVE Walk(_, _, _)
Walk(current, path, i) ==
  IF i > Len(path) - 1 THEN current
  ELSE Walk(Prop(current, path[i].s), path, i + 1)

\* the assignment through the references the walk went along
RECURSIVE StoreAt(_, _, _)
StoreAt(root, path, val) ==
  IF Len(path) = 1 THEN Assign(root, path[1].s, val)
  ELSE Assign(root, path[1].s, StoreAt(root.kids[path[1].s], Tail(path), val))

\* fullJson at the end of the try block's merge, or Throw
MergedJson(fullJson, nodeData, editedFields) ==
  LET path == nodeData.path
  IN IF Len(path) > 0 THEN
       LET current == Walk(fullJson, path, 1)
           lastKey == path[Len(path)].s
       IN IF IsSingleValue(nodeData) THEN
            IF CanAssign(current)
            THEN StoreAt(fullJson, path, ParseOrRaw(editedFields, "value"))
            ELSE Throw
          ELSE IF Prop(current, lastKey) = Throw THEN Throw
          ELSE IF IsContainer(Prop(current, lastKey))
          THEN StoreAt(fullJson, path,
                       AssignAll(Prop(current, lastKey), editedFields, DOMAIN editedFields))
          ELSE fullJson
     ELSE IF DOMAIN editedFields = {} THEN fullJson
          ELSE IF CanAssign(fullJson)
          THEN AssignAll(fullJson, editedFields, DOMAIN editedFields)
          ELSE Throw

\* updatedNodeData
UpdatedNodeData(nodeData, editedFields) ==
  IF IsSingleValue(nodeData)
  THEN [nodeData EXCEPT !.text[1].value = ParseOrRaw(editedFields, "value")]
  ELSE [nodeData EXCEPT !.text =
          [i \in 1..Len(nodeData.text) |->
             IF nodeData.text[i].key # NoKey /\ nodeData.text[i].key \in DOMAIN editedFields
             THEN [nodeData.text[i] EXCEPT !.value = ParseOrRaw(editedFields, nodeData.text[i].key)]
             ELSE nodeData.text[i]]]

\* a handleSave that builds the optimistic node before the merge
SaveSelected_Hoisted(merged, nodeData, editedFields) ==
  UpdatedNodeData(nodeData, editedFields)

\* the selected node after handleSave
SaveSelected(merged, nodeData, editedFields) ==
  IF merged = Throw THEN nodeData ELSE UpdatedNodeData(nodeData, editedFields)

\* the content of the file store after handleSave
SaveContents(merged, old) ==
  IF merged = Throw THEN old ELSE JSONstringify(merged)

\* a handleSave that shows the success toast before the merge
SaveToast_Early(merged) ==
  IF merged = Throw THEN <<"success", "error">> ELSE <<"success">>

\* the toast of handleSave
SaveToast(merged) ==
  IF merged = Throw THEN <<"error">> ELSE <<"success">>

\* a handleSave that leaves edit mode in a finally block
SaveEditMode_Always(merged, mode) == FALSE

\* isEditMode after handleSave
SaveEditMode(merged, mode) ==
  IF merged = Throw THEN mode ELSE FALSE

----------------------------------------------------------------------------
(* Bounds and inputs *)

\* reconciliation timers that may be pending at once
MaxPending == 2

\* the texts typed into a field
Texts == {"2", "x"}

DocA == obj("o" :> obj("b" :> Null) @@ "l" :> arr("0" :> num("1")))

DocB == obj("o" :> str("1"))

\* the rows of a node and the segments of a path, for the nodes of any graph
MaxRows == 2

MaxPathLen == 2

RowKeys == {NoKey, "a", "b"}

AnyValues == {num("1"), str("x"), arr("0" :> num("1") @@ "1" :> num("2")),
              obj("a" :> num("1"))}

AnyRow == {[key |-> k, value |-> v, type |-> v.t] : k \in RowKeys, v \in AnyValues}

AnySegments == {key("customer"), idx("0")}

SeqsUpTo(S, n) == UNION {[1..m -> S] : m \in 0..n}

\* NodeData of any rows and any path
AnyNodes ==
  {[id |-> PathId(path), path |-> path, text |-> rows] :
     path \in SeqsUpTo(AnySegments, MaxPathLen), rows \in SeqsUpTo(AnyRow, MaxRows)}

\* a document that is one number
DocS == num("1")

\* the documents the application starts with
InitDocs == {DocA, DocS}

\* the documents another writer of the file store (the text editor) leaves
ExternalDocs == {DocB}

----------------------------------------------------------------------------
(* State *)

VARIABLES
  opened,        \* the modal's opened prop
  selectedNode,  \* useGraph: selectedNode
  selRef,        \* what the selectedNode object shares with the nodes collection:
                 \* "coll" it is an object of the collection, "rows" it is another
                 \* object with the row objects of one, "fresh" nothing
  nodes,         \* useGraph: nodes
  contents,      \* useFile: contents
  json,          \* useJson: json
  pending,       \* writes of contents not yet propagated to json and nodes:
                 \* "none", "commit" (by handleSave only), "external"
  isEditMode,    \* React state isEditMode
  editedFields,  \* React state editedFields
  timers,        \* the pending setTimeout callbacks of handleSave, oldest first
  toasts,        \* the toasts of the last step
  ev,            \* the last step: its handler and what it found
  view           \* what the last render put into the two CodeHighlight elements

vars == <<opened, selectedNode, selRef, nodes, contents, json, pending,
          isEditMode, editedFields, timers, toasts, ev, view>>

Event(op, id, wrote) == [op |-> op, id |-> id, wrote |-> wrote]

\* a timer of handleSave: id is nodeData.id of its closure; quiet records
\* that the user has done nothing since the commit
Timer(id) == [id |-> id, quiet |-> TRUE]

UserActed(ts) == [i \in DOMAIN ts |-> [ts[i] EXCEPT !.quiet = FALSE]]

Init ==
  /\ opened = FALSE
  /\ selectedNode = NoNode
  /\ selRef = "fresh"
  /\ contents \in InitDocs
  /\ json = contents
  /\ nodes = BuildNodes(json)
  /\ pending = "none"
  /\ isEditMode = FALSE
  /\ editedFields = <<>>
  /\ timers = <<>>
  /\ toasts = <<>>
  /\ ev = Event("init", <<>>, FALSE)
  /\ view = Render(selectedNode, isEditMode)

\* an effect with [opened] as its only dependency
EffectFields_OpenOnly(nodeData, fields, justOpened) ==
  IF justOpened THEN ToEditBuffer(nodeData) ELSE fields

\* editedFields after the effect on [opened, nodeData] ran with the modal
\* open: fields are the ones before, justOpened tells that opened changed
EffectFields(nodeData, fields, justOpened) == ToEditBuffer(nodeData)

\* a click on a node of the graph: it is selected and the modal opens; the
\* effect on [opened, nodeData] seeds the fields
Select(n) ==
  /\ ~opened
  /\ n \in nodes
  /\ opened' = TRUE
  /\ selectedNode' = n
  /\ selRef' = "coll"
  /\ isEditMode' = FALSE
  /\ editedFields' = EffectFields(n, editedFields, TRUE)
  /\ timers' = UserActed(timers)
  /\ toasts' = <<>>
  /\ ev' = Event("select", n.id, TRUE)
  /\ UNCHANGED <<nodes, contents, json, pending>>
  /\ view' = Render(selectedNode', isEditMode')

\* onClose: the effect runs and does nothing
Close ==
  /\ opened
  /\ opened' = FALSE
  /\ timers' = UserActed(timers)
  /\ toasts' = <<>>
  /\ ev' = Event("close", selectedNode.id, FALSE)
  /\ UNCHANGED <<selectedNode, selRef, nodes, contents, json, pending,
                 isEditMode, editedFields>>
  /\ view' = Render(selectedNode', isEditMode')

handleEdit ==
  /\ opened /\ ~isEditMode
  /\ isEditMode' = TRUE
  /\ timers' = UserActed(timers)
  /\ toasts' = <<>>
  /\ ev' = Event("edit", selectedNode.id, FALSE)
  /\ UNCHANGED <<opened, selectedNode, selRef, nodes, contents, json, pending,
                 editedFields>>
  /\ view' = Render(selectedNode', isEditMode')

\* a handleCancel that leaves edit mode without resetting the fields
CancelFields_Kept(nodeData, editedFields_) == editedFields_

\* the fields handleCancel sets
CancelFields(nodeData, editedFields_) == ToEditBuffer(nodeData)

handleCancel ==
  /\ opened /\ isEditMode
  /\ isEditMode' = FALSE
  /\ editedFields' = CancelFields(selectedNode, editedFields)
  /\ timers' = UserActed(timers)
  /\ toasts' = <<>>
  /\ ev' = Event("cancel", selectedNode.id, editedFields' # editedFields)
  /\ UNCHANGED <<opened, selectedNode, selRef, nodes, contents, json, pending>>
  /\ view' = Render(selectedNode', isEditMode')

handleFieldChange(k, value) ==
  /\ opened /\ isEditMode
  /\ k \in DOMAIN editedFields
  /\ editedFields' = (k :> value) @@ editedFields
  /\ timers' = UserActed(timers)
  /\ toasts' = <<>>
  /\ ev' = Event("change", selectedNode.id, FALSE)
  /\ UNCHANGED <<opened, selectedNode, selRef, nodes, contents, json, pending,
                 isEditMode>>
  /\ view' = Render(selectedNode', isEditMode')

\* the nodes collection after updatedNodeData.text[0].value = ... : the row
\* object of a single-value node is the collection's when selRef says so
SaveNodes(ns, ref, nodeData, updated) ==
  IF IsSingleValue(nodeData) /\ ref \in {"coll", "rows"}
  THEN {IF n.id = nodeData.id THEN [n EXCEPT !.text = updated.text] ELSE n : n \in ns}
  ELSE ns

SaveRef(ref, nodeData) ==
  IF IsSingleValue(nodeData) /\ ref \in {"coll", "rows"} THEN "rows" ELSE "fresh"

handleSave ==
  /\ opened /\ isEditMode
  /\ Len(timers) < MaxPending
  /\ LET merged == MergedJson(json, selectedNode, editedFields)
         updated == SaveSelected(merged, selectedNode, editedFields)
     IN /\ selectedNode' = updated
        /\ contents' = SaveContents(merged, contents)
        /\ toasts' = SaveToast(merged)
        /\ isEditMode' = SaveEditMode(merged, isEditMode)
        /\ IF merged = Throw
           THEN /\ UNCHANGED <<selRef, nodes, pending, editedFields>>
                /\ timers' = UserActed(timers)
           ELSE /\ selRef' = SaveRef(selRef, selectedNode)
                /\ nodes' = SaveNodes(nodes, selRef, selectedNode, updated)
                /\ pending' = IF pending = "external" THEN "external" ELSE "commit"
                /\ editedFields' = EffectFields(updated, editedFields, FALSE)
                /\ timers' = Append(UserActed(timers), Timer(selectedNode.id))
        /\ ev' = Event("save", selectedNode.id, merged # Throw)
  /\ UNCHANGED <<opened, json>>
  /\ view' = Render(selectedNode', isEditMode')

\* a callback without the if (updatedNode) test
ReconcileTarget_Unchecked(ns, timer, current) ==
  IF HasNode(ns, timer.id) THEN FindNode(ns, timer.id) ELSE NoNode

\* the node the timer's callback hands to setSelectedNode
ReconcileTarget(ns, timer, current) ==
  IF HasNode(ns, timer.id) THEN FindNode(ns, timer.id) ELSE current

\* the setTimeout callback of the oldest pending handleSave
Reconcile ==
  /\ timers # <<>>
  /\ LET timer == Head(timers)
         hit == HasNode(nodes, timer.id)
         target == ReconcileTarget(nodes, timer, selectedNode)
         same == selRef = "coll" /\ selectedNode.id = timer.id
     IN /\ timers' = Tail(timers)
        /\ selectedNode' = target
        /\ IF hit /\ ~same
           THEN /\ selRef' = "coll"
                /\ IF opened
                   THEN /\ isEditMode' = FALSE
                        /\ editedFields' = EffectFields(target, editedFields, FALSE)
                   ELSE UNCHANGED <<isEditMode, editedFields>>
           ELSE UNCHANGED <<selRef, isEditMode, editedFields>>
        /\ toasts' = <<>>
        /\ ev' = Event("reconcile", timer.id, hit)
  /\ UNCHANGED <<opened, nodes, contents, json, pending>>
  /\ view' = Render(selectedNode', isEditMode')

\* the background update the file store starts: json follows contents and
\* the graph is parsed again
Propagate ==
  /\ pending # "none"
  /\ json' = contents
  /\ nodes' = BuildNodes(contents)
  /\ pending' = "none"
  /\ selRef' = "fresh"
  /\ toasts' = <<>>
  /\ ev' = Event("propagate", <<>>, FALSE)
  /\ UNCHANGED <<opened, selectedNode, contents, isEditMode, editedFields, timers>>
  /\ view' = Render(selectedNode', isEditMode')

\* another writer replaces the text while the modal is closed
ExternalEdit(d) ==
  /\ ~opened
  /\ d # contents
  /\ contents' = d
  /\ pending' = "external"
  /\ timers' = UserActed(timers)
  /\ toasts' = <<>>
  /\ ev' = Event("external", <<>>, FALSE)
  /\ UNCHANGED <<opened, selectedNode, selRef, nodes, json, isEditMode,
                 editedFields>>
  /\ view' = Render(selectedNode', isEditMode')

Next ==
  \/ \E n \in nodes : Select(n)
  \/ Close
  \/ handleEdit
  \/ handleCancel
  \/ \E k \in DOMAIN editedFields, value \in Texts : handleFieldChange(k, value)
  \/ handleSave
  \/ Reconcile
  \/ Propagate
  \/ \E d \in ExternalDocs : ExternalEdit(d)

Spec == Init /\ [][Next]_vars

\* The modal over a graph of one node of any rows or path: the rows and
\* paths are those of the type NodeData, whatever graph builder made them.
\* No commit is made.
InitAnyNode ==
  /\ opened = FALSE
  /\ selectedNode = NoNode
  /\ selRef = "fresh"
  /\ contents = DocS
  /\ json = contents
  /\ \E n \in AnyNodes : nodes = {n}
  /\ pending = "none"
  /\ isEditMode = FALSE
  /\ editedFields = <<>>
  /\ timers = <<>>
  /\ toasts = <<>>
  /\ ev = Event("init", <<>>, FALSE)
  /\ view = Render(selectedNode, isEditMode)

NextAnyNode ==
  \/ \E n \in nodes : Select(n)
  \/ Close
  \/ handleEdit
  \/ handleCancel
  \/ \E k \in DOMAIN editedFields, value \in Texts : handleFieldChange(k, value)

SpecAnyNode == InitAnyNode /\ [][NextAnyNode]_vars

----------------------------------------------------------------------------
(* Steps, as the properties below recognise them *)

\* a step of the timer callback: only it removes a timer
ReconcileStep == timers # <<>> /\ timers' = Tail(timers)

\* a step of handleSave that showed the success toast
SaveOkStep == toasts' = <<"success">> /\ Len(timers') = Len(timers) + 1

\* a step of handleSave that showed the error toast
SaveFailStep == toasts' = <<"error">>

TimerIds(ts) == [i \in DOMAIN ts |-> ts[i].id]

----------------------------------------------------------------------------
(* C1: a reconciliation writes the selected-node slot only when the node    *)
(* selected at that moment still has the identifier of the committed node.  *)
C1_StaleReconciliationGuarded ==
  [][(ReconcileStep /\ HasNode(nodes, Head(timers).id))
       => selectedNode.id = Head(timers).id]_vars

(* C2: a successful commit that follows an earlier commit merges into the   *)
(* text that commit wrote to the document store, whether or not that text   *)
(* has been propagated yet, so the store keeps the edits of both.           *)
C2_CommitMergesIntoLatestText ==
  [][(SaveOkStep /\ pending = "commit")
       => contents' = JSONstringify(MergedJson(contents, selectedNode, editedFields))]_vars

(* C3: a commit that fails leaves the document store content, the selected  *)
(* node and the set of scheduled reconciliations exactly as they were.      *)
C3_FailedCommitAtomic ==
  [][SaveFailStep
       => /\ contents' = contents
          /\ selectedNode' = selectedNode
          /\ TimerIds(timers') = TimerIds(timers)
          /\ UNCHANGED <<json, nodes, pending>>]_vars

C3_Witness ==
  /\ ev.op = "save" /\ ~ev.wrote
  /\ toasts = <<"error">>
  /\ selectedNode # NoNode

\* the path of the node cannot be walked to a container of the document, or
\* the node has rows with keys and the last segment addresses no object
Unresolvable(fullJson, nodeData) ==
  /\ Len(nodeData.path) > 0
  /\ LET current == Walk(fullJson, nodeData.path, 1)
         lastKey == nodeData.path[Len(nodeData.path)].s
     IN \/ ~IsContainer(current)
        \/ ~IsSingleValue(nodeData) /\ ~IsContainer(Prop(current, lastKey))

(* C4: a commit whose node path cannot be resolved in the cloned document   *)
(* shows the failure toast and writes neither the store nor the selection.  *)
C4_UnresolvableAddressFails ==
  [][(toasts' # <<>> /\ Unresolvable(json, selectedNode))
       => /\ toasts' = <<"error">>
          /\ contents' = contents
          /\ selectedNode' = selectedNode]_vars

(* C5: a successful commit ends in Viewing; a failed commit stays in        *)
(* Editing with every entry of the buffer as it was before the attempt.     *)
C5_CommitTransition ==
  [][/\ SaveOkStep => (isEditMode /\ ~isEditMode')
     /\ SaveFailStep => (isEditMode /\ isEditMode' /\ editedFields' = editedFields)]_vars

C5_Witness ==
  /\ toasts = <<"error">>
  /\ opened /\ isEditMode
  /\ editedFields # ToEditBuffer(selectedNode)

\* new is old everywhere except at the value path addresses (single) or at
\* the properties ks of the object path addresses
RECURSIVE SameExcept(_, _, _, _, _)
SameExcept(old, new, path, single, ks) ==
  IF path = <<>> THEN
    IF single THEN TRUE
    ELSE IF IsContainer(old) THEN
      /\ new.t = old.t
      /\ \A k \in (DOMAIN old.kids \cup DOMAIN new.kids) \ ks :
           k \in DOMAIN old.kids /\ k \in DOMAIN new.kids /\ new.kids[k] = old.kids[k]
    ELSE new = old
  ELSE IF IsContainer(old) THEN
    LET h == path[1].s
    IN /\ new.t = old.t
       /\ \A k \in (DOMAIN old.kids \cup DOMAIN new.kids) \ {h} :
            k \in DOMAIN old.kids /\ k \in DOMAIN new.kids /\ new.kids[k] = old.kids[k]
       /\ IF h \in DOMAIN old.kids /\ h \in DOMAIN new.kids
          THEN SameExcept(old.kids[h], new.kids[h], Tail(path), single, ks)
          ELSE \/ h \notin DOMAIN old.kids /\ h \notin DOMAIN new.kids
               \/ Len(path) = 1 /\ single
  ELSE new = old

(* C6: after a successful commit the document in the store equals the one   *)
(* that was there before at every location except the buffered fields of    *)
(* the addressed object, or the addressed value of a single-value node.     *)
(* Stated for a store that only commits have written since the last         *)
(* propagation, where the document before is what the user's commits made.  *)
C6_MergePreservesUntouched ==
  [][(SaveOkStep /\ pending # "external")
       => SameExcept(contents, contents', selectedNode.path,
                     IsSingleValue(selectedNode), DOMAIN editedFields)]_vars

(* C7: committing the buffer toEditBuffer gives for a node of the document, *)
(* with no field changed, leaves the document and every row's value and     *)
(* type as they were.                                                       *)
C7_UnmodifiedCommitIsNoOp ==
  [][(/\ SaveOkStep
      /\ pending = "none"
      /\ selectedNode \in BuildNodes(json)
      /\ editedFields = ToEditBuffer(selectedNode))
       => contents' = contents /\ selectedNode' = selectedNode]_vars

(* C8: when the user does nothing after a successful commit and the         *)
(* collection rebuilt from the committed text has a node with the committed *)
(* identifier, the reconciliation leaves that canonical node selected.      *)
C8_ReconciledWithCommittedText ==
  [][(/\ ReconcileStep
      /\ Head(timers).quiet
      /\ HasNode(BuildNodes(contents), Head(timers).id))
       => selectedNode' = FindNode(BuildNodes(contents), Head(timers).id)]_vars

(* C9: a reconciliation that finds no node with the committed identifier    *)
(* does not write the selected-node slot: the selected node stays what it   *)
(* was, the optimistic node included, and is not empty.                     *)
C9_MissKeepsSelection ==
  [][(ReconcileStep /\ ~HasNode(nodes, Head(timers).id))
       => /\ selectedNode' = selectedNode
          /\ selectedNode' # NoNode
          /\ UNCHANGED <<selRef, isEditMode, editedFields>>]_vars

C9_Witness ==
  /\ ev.op = "reconcile" /\ ~ev.wrote
  /\ selectedNode.id = ev.id
  /\ selRef = "fresh"
  /\ ~HasNode(nodes, ev.id)

\* the Editing state as rendered
InSession == opened /\ isEditMode

(* C10: while a session lasts the document store and the selected node do   *)
(* not change; handleCancel ends it in Viewing with the buffer equal to     *)
(* toEditBuffer of the selected node, so nothing typed is left anywhere.    *)
C10_CancelDiscardsSession ==
  [][/\ (InSession /\ InSession') => UNCHANGED <<contents, selectedNode>>
     /\ (InSession /\ ev'.op = "cancel")
          => /\ ~isEditMode'
             /\ editedFields' = ToEditBuffer(selectedNode')
             /\ UNCHANGED <<contents, selectedNode, json, nodes, timers>>]_vars

C10_Witness ==
  /\ ev.op = "cancel" /\ ev.wrote
  /\ opened /\ ~isEditMode
  /\ editedFields = ToEditBuffer(selectedNode)

\* the value the document has at a path
RECURSIVE ValueAt(_, _)
ValueAt(x, path) ==
  IF path = <<>> THEN x ELSE ValueAt(Prop(x, path[1].s), Tail(path))

\* the values the rows with key k show
RowValues(node, k) ==
  {node.text[i].value : i \in {j \in 1..Len(node.text) : node.text[j].key = k}}

(* C11: a successful commit of a node with keyed rows, the root node        *)
(* included, leaves in the field of every buffered identifier the literal   *)
(* its text parses to, or the text as a string, and the optimistic node     *)
(* shows that value in the row of that identifier.                          *)
C11_ObjectMergeRecoversTypes ==
  [][(SaveOkStep /\ ~IsSingleValue(selectedNode))
       => \A k \in DOMAIN editedFields :
            /\ Prop(ValueAt(contents', selectedNode.path), k) = ParseOrRaw(editedFields, k)
            /\ RowValues(selectedNode', k) = {ParseOrRaw(editedFields, k)}]_vars

(* C12: every run of handleSave shows exactly one toast, success or error,  *)
(* no other step shows one, and the success toast is shown only when the    *)
(* store was replaced by the text of that commit.                           *)
C12_OneNotificationPerCommit ==
  [][/\ ev'.op = "save"
          => /\ toasts' \in {<<"success">>, <<"error">>}
             /\ toasts' = <<"success">>
                  => /\ pending' # "none"
                     /\ contents' = JSONstringify(MergedJson(json, selectedNode, editedFields))
     /\ (ev'.op # "save" /\ ev' # ev) => toasts' = <<>>]_vars

C12_Witness ==
  /\ ev.op = "save" /\ ev.wrote
  /\ toasts = <<"success">>
  /\ pending # "none"
  /\ contents # json

(* C15: once in Editing, only handleCancel and a successful handleSave end  *)
(* the session or reset the buffer; while the editor stays open every other *)
(* step, a reconciliation of an earlier commit included, leaves the state   *)
(* in Editing, and only handleFieldChange changes the buffer.               *)
C15_SessionEndsByCancelOrCommit ==
  [][(InSession /\ opened' /\ ev'.op # "cancel" /\ ~SaveOkStep)
       => /\ isEditMode'
          /\ ev'.op # "change" => editedFields' = editedFields]_vars

(* C19: right after a commit that shows the success toast, the value a row  *)
(* of the optimistic node shows for a buffered identifier is the value the  *)
(* text handed to the store has at the node's path and that key, or at the  *)
(* node's path for a single-value node.                                     *)
C19_OptimisticAgreesWithDocument ==
  [][SaveOkStep
       => IF IsSingleValue(selectedNode)
          THEN selectedNode'.text[1].value = ValueAt(contents', selectedNode.path)
          ELSE \A k \in DOMAIN editedFields :
                 RowValues(selectedNode', k) =
                   {Prop(ValueAt(contents', selectedNode.path), k)}]_vars

(* C20: a commit changes no node of the nodes collection: the optimistic    *)
(* node is a fresh value and the nodes read before the rebuild still show   *)
(* the values they had before the commit.                                   *)
C20_CommitMutatesNoSnapshot ==
  [][SaveOkStep => nodes' = nodes]_vars

(* C16: whenever the state goes from Viewing to Editing the buffer is       *)
(* toEditBuffer of the node selected at that moment, whatever selections,   *)
(* commits, cancels and reconciliations came before.                        *)
C16_EnterEditSeedsFromCurrentNode ==
  [][(opened /\ ~isEditMode /\ opened' /\ isEditMode')
       => editedFields' = ToEditBuffer(selectedNode')]_vars

C16_Witness ==
  /\ ev.op = "edit"
  /\ opened /\ isEditMode
  /\ pending = "commit"
  /\ selRef = "coll"
  /\ editedFields = ToEditBuffer(selectedNode)

\* the addresses of the containers of x that have a field "value"
RECURSIVE ValueHolders(_, _)
ValueHolders(x, at) ==
  IF ~IsContainer(x) THEN {}
  ELSE (IF "value" \in DOMAIN x.kids THEN {at} ELSE {}) \cup
       UNION {ValueHolders(x.kids[k], Append(at, k)) : k \in DOMAIN x.kids}

(* C18: a successful commit of a node with one keyless row makes the value  *)
(* at the node's address, the empty path included, the parsed-or-fallback   *)
(* value of the buffer's entry "value", and gives no container of the       *)
(* document a field "value" that the text it cloned did not have.           *)
C18_ScalarCommitReplacesWholesale ==
  [][(SaveOkStep /\ IsSingleValue(selectedNode))
       => /\ ValueAt(contents', selectedNode.path) = ParseOrRaw(editedFields, "value")
          /\ ValueHolders(contents', <<>>) \subseteq ValueHolders(json, <<>>)]_vars

----------------------------------------------------------------------------
(* The keyed rows of scalar type, as the claims below speak of them *)

ListedKeys(rows) ==
  {rows[i].key : i \in {j \in 1..Len(rows) :
                          rows[j].key # NoKey /\ rows[j].type \notin {"array", "object"}}}

\* the value of the last listed row with key k
LastValue(rows, k) ==
  LET is == {i \in 1..Len(rows) :
               rows[i].key = k /\ rows[i].type \notin {"array", "object"}}
  IN rows[CHOOSE i \in is : \A j \in is : j <= i].value

\* the orders in which the keys ks can be listed
Orders(ks) ==
  {f \in [1..Cardinality(ks) -> ks] : \A i, j \in DOMAIN f : f[i] = f[j] => i = j}

RECURSIVE Bracketed(_)
Bracketed(path) ==
  IF path = <<>> THEN ""
  ELSE "[" \o (IF path[1].k = "string" THEN "\"" \o path[1].s \o "\"" ELSE path[1].s)
           \o "]" \o Bracketed(Tail(path))

(* C14: the path shown is $ for the empty path and otherwise $ followed by  *)
(* one bracketed segment per element of the path, in order, a string        *)
(* segment in double quotes and a number segment bare.                      *)
C14_RenderPath ==
  /\ selectedNode.path = <<>> => view.path = "$"
  /\ view.path = "$" \o Bracketed(selectedNode.path)

C14_Witness ==
  /\ opened
  /\ selectedNode.path = <<key("customer"), idx("0")>>
  /\ view.path = "$[\"customer\"][0]"

(* C17: while the modal is open every value of the edit buffer is a string, *)
(* and the buffer has the one entry "value" for a single keyless row of     *)
(* scalar type, no entry for a single keyless row of type array or object,  *)
(* and otherwise exactly one entry per key of the keyed rows of scalar type.*)
C17_EditBufferShape ==
  opened =>
    LET rows == selectedNode.text
    IN /\ \A k \in DOMAIN editedFields : editedFields[k] \in STRING
       /\ DOMAIN editedFields =
            IF Len(rows) = 1 /\ rows[1].key = NoKey
            THEN (IF rows[1].type \in {"array", "object"} THEN {} ELSE {"value"})
            ELSE ListedKeys(rows)

====
